---- MODULE Spec2Model ----
(***************************************************************************)
(* Conversation-state and response-normalization pipeline of the React     *)
(* code assistant backend: the conversation buffer (trim and export        *)
(* policy), the modification normalizer, and the session store's turn.     *)
(***************************************************************************)
EXTENDS Integers, Sequences, FiniteSets, TLC

VARIABLES
    buf,        \* the conversation buffer under test: kind, max_messages, messages, examples_injected
    appended,   \* every message handed to add_message so far, in call order
    api_messages, \* what the last get_messages_for_api call returned, or NoCall
    changes,    \* the change list handed to the normalizer
    sorted_changes, \* what sort_modifications returned for it, or NoCall
    patched,    \* per returned entry, the file after applying its modifications in order, or NoCall
    conversations,  \* provider -> (session id -> conversation buffer), the keys present only
    generated_code, \* session id -> None or the serialized last generation, the keys present only
    turn,       \* the chat request just processed, with its response, or NoTurn
    read_result, \* the session id of the last reset, history read or code read, and what it returned
    turns,      \* chat requests started so far
    requests,   \* request id -> the coroutine serving it: where it stands and the turn it started
    fn_call,    \* a pure function under test with its arguments, or NoFn
    fn_result,  \* what that function returned, or NoFn
    last_op     \* the operation that produced this state

bufVars == <<buf, appended, api_messages>>
normVars == <<changes, sorted_changes, patched>>
sessVars == <<conversations, generated_code, turn, read_result, turns, requests>>
fnVars == <<fn_call, fn_result>>
vars == <<buf, appended, api_messages, changes, sorted_changes, patched,
          conversations, generated_code, turn, read_result, turns,
          requests, fn_call, fn_result, last_op>>

\* ------------------------------------------------------------------ bounds

MaxCapacity == 7
MaxAdds == 8
MaxLine == 3
MaxEntries == 2
MaxMods == 3
\* turns of one session in a row, enough for an export that marks a boundary
MaxOrderedTurns == 3
\* successful turns of one session on one provider, enough to trim a buffer
\* of DefaultMaxMessages twice
MaxLongTurns == 11

\* max_messages=20 is the default of every buffer class and the only value the
\* handlers construct; the model runs the same code on smaller capacities.
DefaultMaxMessages == 20

\* number of messages get_messages_for_api keeps out of the cached block
RecentCount == 3

\* ----------------------------------------------------------- python slices

Max(a, b) == IF a >= b THEN a ELSE b
Min(a, b) == IF a <= b THEN a ELSE b

\* s[i:] for any integer i (a negative i counts from the end, -0 is 0)
PyFrom(s, i) ==
    IF i >= 0 THEN SubSeq(s, Min(i, Len(s)) + 1, Len(s))
    ELSE SubSeq(s, Max(Len(s) + i, 0) + 1, Len(s))

\* s[:i] for any integer i
PyUpTo(s, i) ==
    IF i >= 0 THEN SubSeq(s, 1, Min(i, Len(s)))
    ELSE SubSeq(s, 1, Max(Len(s) + i, 0))

\* ---------------------------------------------------------------- messages

Roles == {"user", "assistant"}
Kinds == {"claude", "openai"}
\* the value of a result variable before the call that sets it
NoCall == <<>>

\* A stored or exported message. content is the text; cache_control is TRUE
\* when the content is the one-block list carrying cache_control: ephemeral.
Message(role, content, marked) ==
    [role |-> role, content |-> content, cache_control |-> marked]

\* The priming pair. Claude's user example is stored already wrapped in a
\* cache_control block; OpenAI's is plain text.
Examples(kind) ==
    << Message("user", [tag |-> "examples", n |-> 0], kind = "claude"),
       Message("assistant", [tag |-> "understood", n |-> 0], FALSE) >>

NewBuffer(kind, cap) ==
    [kind |-> kind, max_messages |-> cap, messages |-> <<>>,
     examples_injected |-> FALSE]

\* ------------------------------------------------------ conversation buffer

inject_examples(b) ==
    IF ~b.examples_injected /\ b.messages = <<>>
    THEN [b EXCEPT !.messages = Examples(b.kind), !.examples_injected = TRUE]
    ELSE b

\* mutant: the alternation repair after a trim is missing
DropThirdNever(msgs) == msgs

\* mutant: the repair drops the third message when it is a user message
DropThirdIfUser(msgs) ==
    IF Len(msgs) > 2 /\ msgs[3].role = "user"
    THEN PyUpTo(msgs, 2) \o PyFrom(msgs, 3)
    ELSE msgs

DropThirdIfNotUser(msgs) ==
    IF Len(msgs) > 2 /\ msgs[3].role # "user"
    THEN PyUpTo(msgs, 2) \o PyFrom(msgs, 3)
    ELSE msgs

_trim_if_needed(b) ==
    IF Len(b.messages) > b.max_messages
    THEN LET kept == IF b.examples_injected
                     THEN PyUpTo(b.messages, 2) \o PyFrom(b.messages, -(b.max_messages - 2))
                     ELSE PyFrom(b.messages, -b.max_messages)
         IN [b EXCEPT !.messages = DropThirdIfNotUser(kept)]
    ELSE b

\* add_message that stores the message wrapped in a cache_control block
add_message_marked(b, role, content) ==
    _trim_if_needed([b EXCEPT !.messages = Append(@, Message(role, content, TRUE))])

\* add_message that puts the message in front of the buffer
add_message_first(b, role, content) ==
    _trim_if_needed([b EXCEPT !.messages = <<Message(role, content, FALSE)>> \o @])

add_message(b, role, content) ==
    _trim_if_needed([b EXCEPT !.messages = Append(@, Message(role, content, FALSE))])

\* [{"type": "text", "text": msg["content"], "cache_control": ...}]: the text
\* of the new block is the stored content, which is itself a block when the
\* stored message is a wrapped one
Wrapped(msg) ==
    Message(msg.role,
            IF msg.cache_control THEN [tag |-> "block", text |-> msg.content]
            ELSE msg.content,
            TRUE)

\* mutant: the marker goes on the first message of the block, not the last
FormatCacheableFirst(block) ==
    [i \in 1..Len(block) |->
        IF i = 1
        THEN Wrapped(block[i])
        ELSE Message(block[i].role, block[i].content, block[i].cache_control)]

\* {"role": msg["role"], "content": msg["content"]}, the last one of the block
\* wrapped in a cache_control block
FormatCacheable(block) ==
    [i \in 1..Len(block) |->
        IF i = Len(block)
        THEN Wrapped(block[i])
        ELSE Message(block[i].role, block[i].content, block[i].cache_control)]

\* mutant: the thresholds and the recent suffix are 2 instead of 3
ClaudeMessagesForApiRecentTwo(b) ==
    IF Len(b.messages) <= 2 THEN b.messages
    ELSE IF b.examples_injected
    THEN LET examples == PyUpTo(b.messages, 2)
             conversation == PyFrom(b.messages, 2)
         IN IF Len(conversation) <= 2 THEN b.messages
            ELSE examples \o FormatCacheable(PyUpTo(conversation, -2))
                          \o PyFrom(conversation, -2)
    ELSE FormatCacheable(PyUpTo(b.messages, -2)) \o PyFrom(b.messages, -2)

\* mutant: the marker goes on the last message of the whole payload
ClaudeMessagesForApiMarkLast(b) ==
    IF Len(b.messages) <= 3 THEN b.messages ELSE FormatCacheable(b.messages)

ClaudeMessagesForApi(b) ==
    IF Len(b.messages) <= 3 THEN b.messages
    ELSE IF b.examples_injected
    THEN LET examples == PyUpTo(b.messages, 2)
             conversation == PyFrom(b.messages, 2)
         IN IF Len(conversation) <= 3 THEN b.messages
            ELSE examples \o FormatCacheable(PyUpTo(conversation, -RecentCount))
                          \o PyFrom(conversation, -RecentCount)
    ELSE FormatCacheable(PyUpTo(b.messages, -RecentCount))
            \o PyFrom(b.messages, -RecentCount)

get_messages_for_api(b) ==
    IF b.kind = "claude" THEN ClaudeMessagesForApi(b) ELSE b.messages

\* self.messages = []; self.examples_injected = False
clear(b) == [b EXCEPT !.messages = <<>>, !.examples_injected = FALSE]

\* ------------------------------------------------- the buffer, call by call

SerialContent == [tag |-> "text", n |-> Len(appended) + 1]

IdleBuffer ==
    /\ buf = NewBuffer("claude", DefaultMaxMessages)
    /\ appended = <<>>
    /\ api_messages = NoCall

\* the session store before any request
NoTurn ==
    [status |-> "idle", session_id |-> "", provider |-> "", model_name |-> "",
     query |-> <<>>, has_context |-> FALSE, has_previous_code |-> FALSE,
     is_modification |-> FALSE, sent |-> <<>>, text |-> [none |-> TRUE],
     decoded |-> [none |-> TRUE], response |-> [none |-> TRUE]]

IdleSessions ==
    /\ conversations = [p \in {"claude", "openai"} |-> <<>>]
    /\ generated_code = <<>>
    /\ turn = NoTurn
    /\ read_result = [none |-> TRUE]
    /\ turns = 0
    /\ requests = <<>>

IdleNormalizer ==
    /\ changes = <<>>
    /\ sorted_changes = NoCall
    /\ patched = NoCall

\* no pure function is under test
NoFn == [fn |-> "none"]

IdleFn ==
    /\ fn_call = NoFn
    /\ fn_result = NoFn

InitBuffer(caps) ==
    /\ buf \in {NewBuffer(k, c) : k \in Kinds, c \in caps}
    /\ appended = <<>>
    /\ api_messages = NoCall
    /\ last_op = "new"
    /\ IdleNormalizer
    /\ IdleSessions
    /\ IdleFn

CallInjectExamples ==
    /\ buf' = inject_examples(buf)
    /\ api_messages' = NoCall
    /\ last_op' = "inject_examples"
    /\ UNCHANGED <<appended, normVars, sessVars, fnVars>>

CallAddMessage ==
    /\ Len(appended) < MaxAdds
    /\ \E role \in Roles :
        /\ buf' = add_message(buf, role, SerialContent)
        /\ appended' = Append(appended, Message(role, SerialContent, FALSE))
    /\ api_messages' = NoCall
    /\ last_op' = "add_message"
    /\ UNCHANGED <<normVars, sessVars, fnVars>>

CallGetMessagesForApi ==
    /\ api_messages' = get_messages_for_api(buf)
    /\ last_op' = "get_messages_for_api"
    /\ UNCHANGED <<buf, appended, normVars, sessVars, fnVars>>

\* clear() empties the buffer; the record of the calls starts again with it
CallClear ==
    /\ buf' = clear(buf)
    /\ appended' = <<>>
    /\ api_messages' = NoCall
    /\ last_op' = "clear"
    /\ UNCHANGED <<normVars, sessVars, fnVars>>

NextBuffer ==
    CallInjectExamples \/ CallAddMessage \/ CallGetMessagesForApi \/ CallClear

\* buffers of the capacities that hold the priming pair and at least one turn
SpecBuf == InitBuffer(3..MaxCapacity) /\ [][NextBuffer]_vars

\* buffers of every capacity the constructor accepts
SpecBufAnyCap == InitBuffer(0..MaxCapacity) /\ [][NextBuffer]_vars

\* ------------------------------------------------ modification normalizer

Operations == {"replace", "insert", "insert_before", "delete"}
Files == {"App.jsx", "Button.jsx"}

Modification(op, start, end, content) ==
    [operation |-> op, start_line |-> start, end_line |-> end, new_content |-> content]

Change(file, mods) == [file |-> file, modifications |-> mods]

\* x.get('start_line', 0)
StartKey(m) == IF "start_line" \in DOMAIN m THEN m.start_line ELSE 0

\* change.get('file', '') and change.get('modifications', [])
FileOf(change) == IF "file" \in DOMAIN change THEN change.file ELSE ""
ModsOf(change) ==
    IF "modifications" \in DOMAIN change THEN change.modifications ELSE <<>>

\* grouping that keeps, for a file, the modifications of its first entry only
ModsOfFirstEntry(chs, file) ==
    LET named == {i \in 1..Len(chs) : FileOf(chs[i]) = file}
    IN IF named = {} THEN <<>>
       ELSE ModsOf(chs[CHOOSE i \in named : \A j \in named : i <= j])

\* file_modifications[file_path].append(mod) over every change, in order
RECURSIVE ModsOfFile(_, _)
ModsOfFile(chs, file) ==
    IF chs = <<>> THEN <<>>
    ELSE (IF FileOf(Head(chs)) = file THEN ModsOf(Head(chs)) ELSE <<>>)
            \o ModsOfFile(Tail(chs), file)

\* the keys of file_modifications in insertion order: a key is created by the
\* first modification appended under it
RECURSIVE FileKeys(_, _)
FileKeys(chs, seen) ==
    IF chs = <<>> THEN <<>>
    ELSE IF ModsOf(Head(chs)) = <<>> \/ FileOf(Head(chs)) \in seen
         THEN FileKeys(Tail(chs), seen)
         ELSE <<FileOf(Head(chs))>>
                \o FileKeys(Tail(chs), seen \cup {FileOf(Head(chs))})

\* mutant: ascending order
InsertAscending(sorted, m) ==
    LET k == Cardinality({i \in 1..Len(sorted) : StartKey(sorted[i]) <= StartKey(m)})
    IN SubSeq(sorted, 1, k) \o <<m>> \o SubSeq(sorted, k + 1, Len(sorted))

\* a descending sort that puts m before the modifications of equal key
InsertDescendingTiesFirst(sorted, m) ==
    LET k == Cardinality({i \in 1..Len(sorted) : StartKey(sorted[i]) > StartKey(m)})
    IN SubSeq(sorted, 1, k) \o <<m>> \o SubSeq(sorted, k + 1, Len(sorted))

\* one step of the stable descending sort: m goes after every modification
\* whose key is greater or equal
InsertDescending(sorted, m) ==
    LET k == Cardinality({i \in 1..Len(sorted) : StartKey(sorted[i]) >= StartKey(m)})
    IN SubSeq(sorted, 1, k) \o <<m>> \o SubSeq(sorted, k + 1, Len(sorted))

\* sorted(mods, key=start_line, reverse=True): descending, equal keys in
\* input order
RECURSIVE SortedDescending(_)
SortedDescending(mods) ==
    IF mods = <<>> THEN <<>>
    ELSE InsertDescending(SortedDescending(SubSeq(mods, 1, Len(mods) - 1)),
                          mods[Len(mods)])

\* mutant: the modifications are grouped by file and left in input order
GroupWithoutSorting(chs) ==
    LET keys == FileKeys(chs, {})
    IN [i \in 1..Len(keys) |-> Change(keys[i], ModsOfFile(chs, keys[i]))]

sort_modifications(chs) ==
    LET keys == FileKeys(chs, {})
    IN [i \in 1..Len(keys) |->
          Change(keys[i], SortedDescending(ModsOfFile(chs, keys[i])))]

\* ------------------------------------------------------------ patch applier

\* every file starts as the lines 1..MaxLine
OriginalFile == [i \in 1..MaxLine |-> i]

\* one modification applied to a text, its line numbers read against that text
ApplyModification(text, m) ==
    CASE m.operation = "replace" ->
            PyUpTo(text, m.start_line - 1) \o <<m.new_content>> \o PyFrom(text, m.end_line)
      [] m.operation = "delete" ->
            PyUpTo(text, m.start_line - 1) \o PyFrom(text, m.end_line)
      [] m.operation = "insert" ->
            PyUpTo(text, m.start_line) \o <<m.new_content>> \o PyFrom(text, m.start_line)
      [] m.operation = "insert_before" ->
            PyUpTo(text, m.start_line - 1) \o <<m.new_content>>
                \o PyFrom(text, m.start_line - 1)

\* the modifications applied one after another, each to the text the previous left
RECURSIVE ApplyInOrder(_, _)
ApplyInOrder(text, mods) ==
    IF mods = <<>> THEN text
    ELSE ApplyInOrder(ApplyModification(text, Head(mods)), Tail(mods))

IsRange(m) == m.operation \in {"replace", "delete"}

Contents(mods) == [i \in 1..Len(mods) |-> mods[i].new_content]

\* what line i of the original becomes when every modification is read against
\* the original numbering: the text inserted before it, the line itself or what
\* replaces it, the text inserted after it
LineSimultaneously(text, mods, i) ==
    LET before == SelectSeq(mods, LAMBDA m : m.operation = "insert_before" /\ m.start_line = i)
        after == SelectSeq(mods, LAMBDA m : m.operation = "insert" /\ m.start_line = i)
        starting == SelectSeq(mods, LAMBDA m : m.operation = "replace" /\ m.start_line = i)
        covered == \E j \in 1..Len(mods) :
                      IsRange(mods[j]) /\ mods[j].start_line <= i /\ i <= mods[j].end_line
    IN Contents(before)
        \o (IF covered THEN Contents(starting) ELSE <<text[i]>>)
        \o Contents(after)

RECURSIVE ApplyUpToLine(_, _, _)
ApplyUpToLine(text, mods, n) ==
    IF n = 0 THEN <<>>
    ELSE ApplyUpToLine(text, mods, n - 1) \o LineSimultaneously(text, mods, n)

ApplySimultaneously(text, mods) == ApplyUpToLine(text, mods, Len(text))

\* two modifications touch no common line and no insertion point lies inside
\* a replaced or deleted range or coincides with another insertion of its kind
Overlap(a, b) ==
    IF IsRange(a) /\ IsRange(b)
    THEN a.start_line <= b.end_line /\ b.start_line <= a.end_line
    ELSE IF IsRange(a) /\ b.operation = "insert"
    THEN a.start_line <= b.start_line /\ b.start_line < a.end_line
    ELSE IF IsRange(a) /\ b.operation = "insert_before"
    THEN a.start_line < b.start_line /\ b.start_line <= a.end_line
    ELSE IF IsRange(b)
    THEN IF a.operation = "insert"
         THEN b.start_line <= a.start_line /\ a.start_line < b.end_line
         ELSE b.start_line < a.start_line /\ a.start_line <= b.end_line
    ELSE a.operation = b.operation /\ a.start_line = b.start_line

PairwiseNonOverlapping(mods) ==
    \A i, j \in 1..Len(mods) : i # j => ~Overlap(mods[i], mods[j])

DistinctStartLines(mods) ==
    \A i, j \in 1..Len(mods) : i # j => mods[i].start_line # mods[j].start_line

\* ---------------------------------------------- the normalizer, call by call

SeqsUpTo(S, n) == UNION {[1..k -> S] : k \in 0..n}

\* the content of the j-th modification of the i-th change: every modification
\* of a change list carries its own text
ContentAt(i, j) == 100 + 10 * i + j

Stamp(i, shapes) ==
    [j \in 1..Len(shapes) |->
        Modification(shapes[j][1], shapes[j][2], shapes[j][3], ContentAt(i, j))]

TotalMods(entries) ==
    LET RECURSIVE Sum(_)
        Sum(k) == IF k = 0 THEN 0 ELSE Len(entries[k][2]) + Sum(k - 1)
    IN Sum(Len(entries))

\* change lists over several files, one-line replaces
ListShapes == {<<"replace", l, l>> : l \in 1..MaxLine}

\* the lists of up to n entries holding at most MaxMods modifications in all,
\* built one entry at a time
RECURSIVE EntryLists(_)
EntryLists(n) ==
    IF n = 0 THEN {<<>>}
    ELSE LET shorter == EntryLists(n - 1)
             entries == Files \X SeqsUpTo(ListShapes, MaxMods)
             fits == {p \in shorter \X entries :
                        /\ Len(p[1]) = n - 1
                        /\ TotalMods(p[1]) + Len(p[2][2]) <= MaxMods}
         IN shorter \cup {Append(p[1], p[2]) : p \in fits}

ChangeLists ==
    {[i \in 1..Len(es) |-> Change(es[i][1], Stamp(i, es[i][2]))] :
        es \in EntryLists(MaxEntries)}

\* batches on one file, every operation and range, pairwise non-overlapping
BatchShapes ==
    {<<op, s, e>> : op \in {"replace", "delete"}, s \in 1..MaxLine, e \in 1..MaxLine}
        \cup {<<op, l, l>> : op \in {"insert", "insert_before"}, l \in 1..MaxLine}

\* the sequences of up to n shapes no two of which overlap, built one
\* modification at a time
RECURSIVE NonOverlappingShapes(_)
NonOverlappingShapes(n) ==
    IF n = 0 THEN {<<>>}
    ELSE LET shorter == NonOverlappingShapes(n - 1)
             shapes == {sh \in BatchShapes : sh[2] <= sh[3]}
             AsMod(sh) == Modification(sh[1], sh[2], sh[3], 0)
             fits == {p \in shorter \X shapes :
                        /\ Len(p[1]) = n - 1
                        /\ \A i \in 1..(n - 1) :
                              /\ ~Overlap(AsMod(p[1][i]), AsMod(p[2]))
                              /\ ~Overlap(AsMod(p[2]), AsMod(p[1][i]))}
         IN shorter \cup {Append(p[1], p[2]) : p \in fits}

Batches ==
    {<<Change("App.jsx", Stamp(1, b))>> : b \in NonOverlappingShapes(MaxMods)}

\* change lists with an entry that lacks the file key or the modifications key
PartialLists ==
    { << [modifications |-> Stamp(1, <<(<<"replace", 1, 1>>)>>)] >>,
      << [file |-> "App.jsx"] >>,
      << Change("App.jsx", Stamp(1, <<(<<"replace", 1, 1>>)>>)),
         [modifications |-> Stamp(2, <<(<<"replace", 2, 2>>)>>)] >>,
      << [file |-> "App.jsx"],
         Change("App.jsx", Stamp(2, <<(<<"replace", 1, 1>>)>>)) >> }

InitNormalizer ==
    /\ changes \in ChangeLists \cup Batches \cup PartialLists
    /\ sorted_changes = NoCall
    /\ patched = NoCall
    /\ last_op = "new"
    /\ IdleBuffer
    /\ IdleSessions
    /\ IdleFn

CallSortModifications ==
    /\ last_op = "new"
    /\ sorted_changes' = sort_modifications(changes)
    /\ last_op' = "sort_modifications"
    /\ UNCHANGED <<changes, patched, bufVars, sessVars, fnVars>>

\* the client applies each returned entry's modifications in the listed order
ApplyInListedOrder ==
    /\ last_op = "sort_modifications"
    /\ patched' = [i \in 1..Len(sorted_changes) |->
                      ApplyInOrder(OriginalFile, sorted_changes[i].modifications)]
    /\ last_op' = "apply"
    /\ UNCHANGED <<changes, sorted_changes, bufVars, sessVars, fnVars>>

NextNormalizer == CallSortModifications \/ ApplyInListedOrder

SpecNorm == InitNormalizer /\ [][NextNormalizer]_vars

\* ------------------------------------------------------------ session store

Providers == {"claude", "openai"}
SessionIds == {"default", "other"}
\* Session ids are interchangeable, so the first request of a run goes to
\* the default one.
FirstSessionIds == {"default"}

\* Python's None, and a JSON null inside a decoded payload's type field
None == [none |-> TRUE]
JsonNull == "<null>"

\* d.get(k, default), d[k] = v and del d[k] on a dict
Get(d, k, default) == IF k \in DOMAIN d THEN d[k] ELSE default
Put(d, k, v) == [x \in DOMAIN d \cup {k} |-> IF x = k THEN v ELSE d[x]]
\* d.clear() in place of del d[k]
DelEverything(d, k) == [x \in {} |-> d[x]]
Del(d, k) == [x \in DOMAIN d \ {k} |-> d[x]]

\* the keys of the two clients' model_mapping
ClaudeModels ==
    {"claude-3-5-sonnet", "claude-3-7-sonnet", "claude-sonnet-4", "claude-sonnet-4-5"}
OpenAIModels == {"gpt-4o", "gpt-4o-mini", "o1", "o1-mini"}
DefaultModelName == "claude-sonnet-4-5"
NoModelName == ""

determine_provider(model_name) ==
    IF model_name \in ClaudeModels THEN "claude"
    ELSE IF model_name \in OpenAIModels THEN "openai"
    ELSE "claude"

\* WorkspaceTree(root=..., children=[...]); the nodes are left out
WorkspaceTree(root) == [root |-> root, children |-> <<>>]

\* ChatContext(open_files=[...], workspace_tree=...): open_files is the list
\* of the files' paths (a file's content is stood for by its path),
\* workspace_tree is None or a tree
ChatContext(open_files, workspace_tree) ==
    [open_files |-> open_files, workspace_tree |-> workspace_tree]

\* ChatContext(open_files=None, workspace_tree=...): a field of one record
\* cannot hold None in one state and a list in another, so an open_files of
\* None is the record without that key
ChatContextWithoutFiles(workspace_tree) == [workspace_tree |-> workspace_tree]

\* the truth value of context.open_files: neither None nor []
HasOpenFiles(context) ==
    "open_files" \in DOMAIN context /\ context.open_files # <<>>

\* context is not None and (context.open_files or context.workspace_tree)
HasContext(context) ==
    context # None /\ (HasOpenFiles(context) \/ context.workspace_tree # None)

\* the lines of one file: f"<file path='{file.path}'>", file.content, "</file>"
RECURSIVE FileLines(_)
FileLines(files) ==
    IF files = <<>> THEN <<>>
    ELSE <<"<file>", Head(files), "</file>">> \o FileLines(Tail(files))

\* the lines that build_context_string joins with "\n"; no line is the empty
\* string returned for no context
build_context_string(context) ==
    IF context = None THEN <<>>
    ELSE (IF HasOpenFiles(context)
          THEN <<"<open_files>">> \o FileLines(context.open_files)
                  \o <<"</open_files>">>
          ELSE <<>>)
         \o (IF context.workspace_tree # None
             THEN <<"<workspace_structure>", context.workspace_tree.root,
                    "</workspace_structure>">>
             ELSE <<>>)

\* ------------------------------------------------------- query classifiers

\* a query is the sequence of its characters, drawn from an alphabet of the
\* ASCII letters, the space and five characters outside ASCII, each written
\* by its code point: "U+00C9" is the capital E with acute, "U+00E9" the small
\* one, "U+212A" the Kelvin sign, "U+0130" the capital I with dot above,
\* "U+0307" the combining dot above
UpperCase ==
    <<"A", "B", "C", "D", "E", "F", "G", "H", "I", "J", "K", "L", "M",
      "N", "O", "P", "Q", "R", "S", "T", "U", "V", "W", "X", "Y", "Z">>
LowerCase ==
    <<"a", "b", "c", "d", "e", "f", "g", "h", "i", "j", "k", "l", "m",
      "n", "o", "p", "q", "r", "s", "t", "u", "v", "w", "x", "y", "z">>

\* the characters of the alphabet that str.lower() leaves as they are: the
\* lowercase letters, the space, the small e with acute and the combining dot
Unchanged ==
    {LowerCase[k] : k \in 1..Len(LowerCase)} \cup {" ", "U+00E9", "U+0307"}

\* the lowercase mapping of one character of the alphabet, and of no other
\* character: a cased character maps to its lowercase form, which may be an
\* ASCII letter (the Kelvin sign) or two characters (the capital I with dot
\* above)
LowerChar(c) ==
    CASE \E k \in 1..Len(UpperCase) : UpperCase[k] = c ->
            <<LowerCase[CHOOSE k \in 1..Len(UpperCase) : UpperCase[k] = c]>>
      [] c = "U+00C9" -> <<"U+00E9">>
      [] c = "U+212A" -> <<"k">>
      [] c = "U+0130" -> <<"i", "U+0307">>
      [] c \in Unchanged -> <<c>>

\* query.lower()
RECURSIVE Lower(_)
Lower(query) ==
    IF Len(query) = 0 THEN <<>>
    ELSE LowerChar(Head(query)) \o Lower(Tail(query))

\* keyword in query_lower
Contains(s, keyword) ==
    \E i \in 0..(Len(s) - Len(keyword)) : SubSeq(s, i + 1, i + Len(keyword)) = keyword

modification_keywords ==
    { <<"c", "h", "a", "n", "g", "e">>, <<"m", "o", "d", "i", "f", "y">>,
      <<"u", "p", "d", "a", "t", "e">>, <<"f", "i", "x">>, <<"a", "d", "d">>,
      <<"r", "e", "m", "o", "v", "e">>, <<"d", "e", "l", "e", "t", "e">>,
      <<"e", "d", "i", "t">>, <<"r", "e", "f", "a", "c", "t", "o", "r">>,
      <<"i", "m", "p", "r", "o", "v", "e">>, <<"a", "d", "j", "u", "s", "t">>,
      <<"a", "l", "t", "e", "r">>, <<"c", "o", "r", "r", "e", "c", "t">>,
      <<"r", "e", "p", "l", "a", "c", "e">>, <<"s", "w", "a", "p">>,
      <<"r", "e", "n", "a", "m", "e">>, <<"m", "o", "v", "e">>,
      <<"c", "o", "n", "v", "e", "r", "t">> }

reference_keywords ==
    { <<"t", "h", "e", " ", "c", "o", "d", "e">>, <<"a", "b", "o", "v", "e">>,
      <<"p", "r", "e", "v", "i", "o", "u", "s">>,
      <<"e", "x", "i", "s", "t", "i", "n", "g">>,
      <<"c", "u", "r", "r", "e", "n", "t">>,
      <<"t", "h", "i", "s", " ", "c", "o", "d", "e">>,
      <<"t", "h", "a", "t", " ", "f", "u", "n", "c", "t", "i", "o", "n">>,
      <<"t", "h", "e", " ", "f", "u", "n", "c", "t", "i", "o", "n">>,
      <<"t", "h", "i", "s", " ", "c", "o", "m", "p", "o", "n", "e", "n", "t">> }

code_keywords ==
    { <<"c", "r", "e", "a", "t", "e">>,
      <<"g", "e", "n", "e", "r", "a", "t", "e">>, <<"b", "u", "i", "l", "d">>,
      <<"m", "a", "k", "e">>, <<"a", "d", "d">>,
      <<"m", "o", "d", "i", "f", "y">>, <<"c", "h", "a", "n", "g", "e">>,
      <<"u", "p", "d", "a", "t", "e">>, <<"f", "i", "x">>,
      <<"r", "e", "m", "o", "v", "e">>, <<"d", "e", "l", "e", "t", "e">>,
      <<"r", "e", "f", "a", "c", "t", "o", "r">>,
      <<"c", "o", "m", "p", "o", "n", "e", "n", "t">>, <<"h", "o", "o", "k">>,
      <<"f", "u", "n", "c", "t", "i", "o", "n">>, <<"a", "p", "p">>,
      <<"p", "a", "g", "e">>, <<"f", "o", "r", "m">> }

\* is_modification_request that takes only the workspace context as anchor
is_modification_request_context_only(query, has_context, has_previous_code) ==
    LET query_lower == Lower(query)
    IN /\ \E keyword \in modification_keywords \cup reference_keywords :
                Contains(query_lower, keyword)
       /\ has_context

is_modification_request(query, has_context, has_previous_code) ==
    LET query_lower == Lower(query)
        has_modification_keyword ==
            \E keyword \in modification_keywords : Contains(query_lower, keyword)
        has_reference ==
            \E keyword \in reference_keywords : Contains(query_lower, keyword)
    IN (has_modification_keyword \/ has_reference)
            /\ (has_context \/ has_previous_code)

is_likely_code_request(query) ==
    \E keyword \in code_keywords : Contains(Lower(query), keyword)

\* the queries the requests are drawn from
Queries ==
    { <<"F", "i", "x", " ", "t", "h", "e", " ", "b", "u", "g">>,
      <<"h", "e", "l", "l", "o">> }

\* the two classifiers, applied once to every request that can be drawn
IsModification ==
    [query \in Queries, has_context \in BOOLEAN, has_previous_code \in BOOLEAN |->
        is_modification_request(query, has_context, has_previous_code)]

IsLikelyCode == [query \in Queries |-> is_likely_code_request(query)]

\* --------------------------------------------------------- response parser

\* The provider's text is a sequence of tokens: "{" and "}" are the braces,
\* "w" a run of the whitespace JSON allows (space, tab, line feed, carriage
\* return), "f" a run of other whitespace (form feed, vertical tab), "p" a run
\* of prose without braces, "J" the member list of a JSON object, whose
\* decoded value is the payload carried along.
ResponseText(n, tokens, payload) ==
    [tag |-> "response", n |-> n, tokens |-> tokens, payload |-> payload]

\* The characters of a member list. A payload without a changes list has no
\* brace among its members. Every entry of a changes list is an object of its
\* own, and so is every modification of an entry: "E" is a run of an entry's
\* member text, "M" the members of one modification, and the pieces of the
\* payload's own member text around the entries stay "J".
RECURSIVE ModificationsChars(_)
ModificationsChars(modifications) ==
    IF Len(modifications) = 0 THEN <<>>
    ELSE <<"{", "M", "}", "E">> \o ModificationsChars(Tail(modifications))

EntryChars(change) ==
    <<"{", "E">>
        \o (IF "modifications" \in DOMAIN change
            THEN ModificationsChars(change.modifications) ELSE <<>>)
        \o <<"}">>

RECURSIVE EntriesChars(_)
EntriesChars(entries) ==
    IF Len(entries) = 0 THEN <<>>
    ELSE EntryChars(Head(entries)) \o <<"J">> \o EntriesChars(Tail(entries))

MemberChars(payload) ==
    IF "changes" \in DOMAIN payload
    THEN <<"J">> \o EntriesChars(payload.changes)
    ELSE <<"J">>

\* the characters of the text: the tokens, each member list spelled out
RECURSIVE TokensChars(_, _)
TokensChars(tokens, payload) ==
    IF Len(tokens) = 0 THEN <<>>
    ELSE (IF Head(tokens) = "J" THEN MemberChars(payload) ELSE <<Head(tokens)>>)
            \o TokensChars(Tail(tokens), payload)

Characters(text) == TokensChars(text.tokens, text.payload)

\* str.find and str.rfind: the 0-based position, or -1
Find(s, c) ==
    IF \E i \in 1..Len(s) : s[i] = c
    THEN (CHOOSE i \in 1..Len(s) : s[i] = c /\ \A j \in 1..(i - 1) : s[j] # c) - 1
    ELSE -1

RFind(s, c) ==
    IF \E i \in 1..Len(s) : s[i] = c
    THEN (CHOOSE i \in 1..Len(s) : s[i] = c /\ \A j \in (i + 1)..Len(s) : s[j] # c) - 1
    ELSE -1

\* the extraction that ends the candidate at the first "}" of the text
JsonCandidateFirstClose(tokens) ==
    LET json_start == Find(tokens, "{")
        json_end == Find(tokens, "}") + 1
    IN IF json_start # -1 /\ json_end > json_start
       THEN [found |-> TRUE, json_str |-> SubSeq(tokens, json_start + 1, json_end)]
       ELSE [found |-> FALSE]

\* response[json_start:json_end] when a "{" is found and the last "}" is
\* not before it
JsonCandidate(tokens) ==
    LET json_start == Find(tokens, "{")
        json_end == RFind(tokens, "}") + 1
    IN IF json_start # -1 /\ json_end > json_start
       THEN [found |-> TRUE, json_str |-> SubSeq(tokens, json_start + 1, json_end)]
       ELSE [found |-> FALSE]

\* the dict without keys
EmptyDict == <<>>

\* json.loads: space, tab, line feed and carriage return between the tokens
\* are skipped, other whitespace is not; braces around nothing decode to the
\* empty dict, braces around the whole member list to
\* the payload, the only entry of the payload's changes list to that entry,
\* and anything else raises
JsonLoads(json_str, payload) ==
    LET solid == SelectSeq(json_str, LAMBDA t : t # "w")
    IN IF solid = <<"{", "}">>
       THEN [ok |-> TRUE, value |-> EmptyDict]
       ELSE IF solid = <<"{">> \o MemberChars(payload) \o <<"}">>
       THEN [ok |-> TRUE, value |-> payload]
       ELSE IF /\ "changes" \in DOMAIN payload
               /\ Len(payload.changes) = 1
               /\ solid = EntryChars(payload.changes[1])
       THEN [ok |-> TRUE, value |-> payload.changes[1]]
       ELSE [ok |-> FALSE]

\* json.dumps(parsed, indent=2): the text of the payload
JsonDumps(parsed) == [json |-> parsed]

\* response.strip(): every kind of whitespace is stripped
Strip(text) ==
    LET solid == {i \in 1..Len(text.tokens) : text.tokens[i] \notin {"w", "f"}}
    IN [text EXCEPT !.tokens =
            IF solid = {} THEN <<>>
            ELSE SubSeq(@, CHOOSE i \in solid : \A j \in solid : i <= j,
                           CHOOSE i \in solid : \A j \in solid : i >= j)]

\* mod.pop('old_content', None)
PopOldContent(mod) == Del(mod, "old_content")

StripChange(change) ==
    IF "modifications" \in DOMAIN change
    THEN [change EXCEPT !.modifications =
            [j \in 1..Len(change.modifications) |->
                PopOldContent(change.modifications[j])]]
    ELSE change

remove_old_content(parsed) ==
    IF Get(parsed, "type", JsonNull) = "code_changes" /\ "changes" \in DOMAIN parsed
    THEN [parsed EXCEPT !.changes =
            [i \in 1..Len(parsed.changes) |-> StripChange(parsed.changes[i])]]
    ELSE parsed

\* lines 264-275 of the handler: the decoded payload with old_content
\* removed, or the fact that one of the steps raised
Decode(text) ==
    LET candidate == JsonCandidate(Characters(text))
    IN IF ~candidate.found THEN [ok |-> FALSE]
       ELSE LET loaded == JsonLoads(candidate.json_str, text.payload)
            IN IF ~loaded.ok THEN [ok |-> FALSE]
               ELSE [ok |-> TRUE, parsed |-> remove_old_content(loaded.value)]

\* parsed.get('type') == 'code_generation'
StoresGeneratedCode(parsed) == Get(parsed, "type", JsonNull) = "code_generation"

\* lines 282-286
SortParsed(parsed) ==
    IF Get(parsed, "type", JsonNull) = "code_changes" /\ "changes" \in DOMAIN parsed
    THEN [parsed EXCEPT !.changes = sort_modifications(@)]
    ELSE parsed

ChatResponse(type, parsed, session_id, is_code_change, request_type, model_name, provider) ==
    [type |-> type, parsed |-> parsed, session_id |-> session_id,
     is_code_change |-> is_code_change, request_type |-> request_type,
     model_name |-> model_name, provider |-> provider]

\* a response builder that takes the type from the session's state: a decoded
\* payload is answered as code_changes whenever the session has code
StructuredResponseByAnchor(parsed, session_id, model_name, provider) ==
    LET response_type ==
            IF Get(generated_code, session_id, None) # None THEN "code_changes"
            ELSE Get(parsed, "type", "code_generation")
        is_code == response_type \in {"code_generation", "code_changes"}
        request_type == IF response_type = "code_changes" THEN "modification"
                        ELSE "generation"
    IN IF response_type = JsonNull THEN [ok |-> FALSE]
       ELSE [ok |-> TRUE,
             response |-> ChatResponse(response_type, parsed, session_id, is_code,
                                       request_type, model_name, provider)]

\* lines 288-302; ChatResponse.type is a str, so a null type raises a
\* ValidationError inside the try block
StructuredResponse(parsed, session_id, model_name, provider) ==
    LET response_type == Get(parsed, "type", "code_generation")
        is_code == response_type \in {"code_generation", "code_changes"}
        request_type == IF response_type = "code_changes" THEN "modification"
                        ELSE "generation"
    IN IF response_type = JsonNull THEN [ok |-> FALSE]
       ELSE [ok |-> TRUE,
             response |-> ChatResponse(response_type, parsed, session_id, is_code,
                                       request_type, model_name, provider)]

\* lines 306-338
FallbackResponse(text, query, session_id, model_name, provider) ==
    IF ~IsLikelyCode[query]
    THEN ChatResponse("conversation",
                      [type |-> "conversation", summary |-> Strip(text)],
                      session_id, FALSE, "conversation", model_name, provider)
    ELSE ChatResponse("error",
                      [type |-> "error", error |-> "Expected code",
                       summary |-> Strip(text)],
                      session_id, FALSE, "error", model_name, provider)

\* ------------------------------------------------ the session store, by call

MaxTurns == 2

ModelNames == {NoModelName, "gpt-4o"}

SampleTree == WorkspaceTree("src")

Contexts ==
    { None, ChatContext(<<>>, None), ChatContext(<<"App.jsx">>, None),
      ChatContextWithoutFiles(SampleTree) }

\* a changes list out of order, its modifications carrying old_content
SampleChanges ==
    << [file |-> "App.jsx",
        modifications |->
            << [operation |-> "replace", start_line |-> 1, end_line |-> 1,
                new_content |-> 101, old_content |-> 1],
               [operation |-> "insert", start_line |-> 3, end_line |-> 3,
                new_content |-> 102, old_content |-> 3] >>] >>

Summary(n) == [tag |-> "summary", n |-> n]

\* the decoded objects the provider's n-th answer may carry
Payloads(n) ==
    { [summary |-> Summary(n)] }
    \cup { [type |-> t, summary |-> Summary(n)] :
            t \in {"code_generation", "conversation", "code_modification", JsonNull} }
    \cup { [type |-> "code_changes", summary |-> Summary(n), changes |-> SampleChanges] }
    \cup { [summary |-> Summary(n), changes |-> SampleChanges] }

\* the provider's n-th answer
Texts(n) ==
    { ResponseText(n, tokens, None) :
        tokens \in { <<"w", "p", "w">>, <<"{", "p", "}">>, <<"{", "}">> } }
    \cup { ResponseText(n, <<"p", "{", "J", "}", "w">>, payload) :
            payload \in Payloads(n) }

\* what call_api does: it raises, or it returns a response, the text of the
\* first content block or choice, which the client does not check and may be
\* None, and a usage dict, whose counts TokenUsage accepts ("counts") or
\* rejects ("malformed")
ProviderOutcomes(n) ==
    { [raised |-> TRUE], [raised |-> FALSE, text |-> None, usage |-> "counts"] }
    \cup { [raised |-> FALSE, text |-> t, usage |-> "counts"] : t \in Texts(n) }
    \cup { [raised |-> FALSE, text |-> ResponseText(n, <<"w", "p", "w">>, None),
            usage |-> "malformed"] }

\* f"<workspace_context>..." / f"<previous_code>..." / f"<user_request>..."
CurrentMessage(n, context_string, previous_code, query) ==
    [tag |-> "current_message", n |-> n,
     workspace_context |-> context_string,
     previous_code |-> previous_code,
     user_request |-> query]

InitSessions ==
    /\ IdleSessions
    /\ IdleBuffer
    /\ IdleNormalizer
    /\ IdleFn
    /\ last_op = "new"

\* line 219 with "if" for "elif": the previous-code block whatever the context
PreviousCodeBlockBeside(context_string, has_code, is_mod, has_context, stored) ==
    IF has_code /\ is_mod THEN stored ELSE None

\* lines 218-221: the previous-code block of the outgoing message, the stored
\* code or None for no block
PreviousCodeBlock(context_string, has_code, is_mod, has_context, stored) ==
    IF context_string = <<>> /\ has_code /\ is_mod /\ ~has_context
    THEN stored ELSE None

\* lines 181-230 of process_chat_request on the stores convs and codes: the
\* session is initialised for the provider, the examples are injected, the
\* user message is appended and the payload exported; n stamps the turn
TurnStart(convs, codes, n, session_id, name, query, context) ==
    LET model_name == IF name = NoModelName THEN DefaultModelName ELSE name
        provider == determine_provider(model_name)
        is_new == session_id \notin DOMAIN convs[provider]
        code0 == IF is_new THEN Put(codes, session_id, None) ELSE codes
        buffer0 == IF is_new THEN NewBuffer(provider, DefaultMaxMessages)
                   ELSE convs[provider][session_id]
        has_previous_code == Get(code0, session_id, None) # None
        has_context == HasContext(context)
        buffer1 == IF ~buffer0.examples_injected THEN inject_examples(buffer0)
                   ELSE buffer0
        context_string == build_context_string(context)
        is_modification == IsModification[query, has_context, has_previous_code]
        previous_code ==
            PreviousCodeBlock(context_string, has_previous_code, is_modification,
                              has_context, Get(code0, session_id, None))
        current_message == CurrentMessage(n, context_string, previous_code, query)
        buffer2 == add_message(buffer1, "user", current_message)
    IN [conversations |-> [convs EXCEPT ![provider] = Put(@, session_id, buffer2)],
        generated_code |-> code0,
        turn |-> [status |-> "calling", session_id |-> session_id,
                  provider |-> provider, model_name |-> model_name,
                  query |-> query, has_context |-> has_context,
                  has_previous_code |-> has_previous_code,
                  is_modification |-> is_modification,
                  sent |-> get_messages_for_api(buffer2), text |-> None,
                  decoded |-> None, response |-> None]]

\* conv_buffer.add_message("assistant", response): conv_buffer is the buffer
\* object fetched at line 197; once a reset has removed it from the store the
\* append changes nothing a handler can read
AppendAnswer(convs, provider, session_id, response) ==
    IF session_id \in DOMAIN convs[provider]
    THEN [convs EXCEPT ![provider] =
            Put(@, session_id,
                add_message(convs[provider][session_id], "assistant", response))]
    ELSE convs

\* lines 233-338 of process_chat_request for the turn started: the provider
\* call raises and the turn ends in the HTTP error ("failed"); or the call
\* returns, the answer is appended, and the turn ends in an exception of its
\* own ("crashed") or in a response ("returned"). The turn crashes on usage
\* counts that TokenUsage rejects (lines 245-260, outside any try) and on an
\* answer of None, on which response.find raises an AttributeError in the try
\* block and response.strip raises it again in the except branch.
TurnFinish(convs, codes, started, outcome) ==
    IF outcome.raised
    THEN [conversations |-> convs, generated_code |-> codes,
          turn |-> [started EXCEPT !.status = "failed"]]
    ELSE IF outcome.usage # "counts" \/ outcome.text = None
    THEN [conversations |->
            AppendAnswer(convs, started.provider, started.session_id, outcome.text),
          generated_code |-> codes,
          turn |-> [started EXCEPT !.status = "crashed", !.text = outcome.text]]
    ELSE LET text == outcome.text
             decoded == Decode(text)
             stores == decoded.ok /\ StoresGeneratedCode(decoded.parsed)
             structured ==
                 IF decoded.ok
                 THEN StructuredResponse(SortParsed(decoded.parsed),
                                         started.session_id, started.model_name,
                                         started.provider)
                 ELSE [ok |-> FALSE]
             response ==
                 IF structured.ok THEN structured.response
                 ELSE FallbackResponse(text, started.query, started.session_id,
                                       started.model_name, started.provider)
         IN [conversations |->
                AppendAnswer(convs, started.provider, started.session_id, text),
             generated_code |->
                IF stores
                THEN Put(codes, started.session_id, JsonDumps(decoded.parsed))
                ELSE codes,
             turn |-> [started EXCEPT
                         !.status = "returned", !.text = text,
                         !.decoded = IF decoded.ok THEN decoded.parsed ELSE None,
                         !.response = response]]

\* process_chat_request on one request, from the request to the response or
\* the exception; outcome is what the provider call does. The coroutine has
\* no await, so the turn is one step of the event loop.
ProcessChatRequest(session_id, name, query, context, outcome) ==
    /\ LET start == TurnStart(conversations, generated_code, turns + 1,
                              session_id, name, query, context)
           finish == TurnFinish(start.conversations, start.generated_code,
                                start.turn, outcome)
       IN /\ conversations' = finish.conversations
          /\ generated_code' = finish.generated_code
          /\ turn' = finish.turn
    /\ turns' = turns + 1
    /\ read_result' = None
    /\ last_op' = "process_chat_request"
    /\ UNCHANGED <<requests, bufVars, normVars, fnVars>>

\* process_chat_request on any request of the session "default"; the turns
\* of two sessions side by side are those of PlainChatRequest
process_chat_request ==
    /\ turns < MaxTurns
    /\ \E session_id \in FirstSessionIds, name \in ModelNames,
          query \in Queries, context \in Contexts,
          outcome \in ProviderOutcomes(turns + 1) :
        ProcessChatRequest(session_id, name, query, context, outcome)

reset_session ==
    /\ \E session_id \in SessionIds :
        /\ conversations' = [p \in Providers |-> Del(conversations[p], session_id)]
        /\ generated_code' = Del(generated_code, session_id)
        /\ read_result' = [session_id |-> session_id,
                            returned |-> [message |-> "reset successfully",
                                          session_id |-> session_id]]
    /\ turn' = NoTurn
    /\ last_op' = "reset_session"
    /\ UNCHANGED <<turns, requests, bufVars, normVars, fnVars>>

\* the provider argument of a history read: any string
ProviderArgs == Providers \cup {"gemini"}

\* conversations[provider] raises a KeyError on a provider the map does not
\* hold
get_history ==
    /\ \E session_id \in SessionIds, provider \in ProviderArgs :
        read_result' =
            [session_id |-> session_id,
             returned |->
                IF provider \notin DOMAIN conversations
                THEN [raised |-> "KeyError", provider |-> provider]
                ELSE IF session_id \notin DOMAIN conversations[provider]
                THEN [messages |-> <<>>, has_code |-> FALSE, provider |-> provider]
                ELSE [messages |-> conversations[provider][session_id].messages,
                      session_id |-> session_id,
                      has_code |-> Get(generated_code, session_id, None) # None,
                      examples_cached |->
                          conversations[provider][session_id].examples_injected,
                      provider |-> provider]]
    /\ last_op' = "get_history"
    /\ turn' = NoTurn
    /\ UNCHANGED <<conversations, generated_code, turns, requests,
                   bufVars, normVars, fnVars>>

get_code ==
    /\ \E session_id \in SessionIds :
        read_result' =
            [session_id |-> session_id,
             returned |->
                IF session_id \notin DOMAIN generated_code
                        \/ generated_code[session_id] = None
                THEN [code |-> None, message |-> "No code generated yet"]
                ELSE [code |-> generated_code[session_id],
                      session_id |-> session_id]]
    /\ last_op' = "get_code"
    /\ turn' = NoTurn
    /\ UNCHANGED <<conversations, generated_code, turns, requests,
                   bufVars, normVars, fnVars>>

Next == process_chat_request \/ reset_session \/ get_history \/ get_code

Spec == InitSessions /\ [][Next]_vars

\* ---------------------------------------- session control, on plain requests

\* what the provider call does on a plain request: it raises, returns None,
\* answers with prose, answers with a code_generation object, or answers
\* with usage counts that TokenUsage rejects
PlainOutcomes(n) ==
    { [raised |-> TRUE],
      [raised |-> FALSE, text |-> None, usage |-> "counts"],
      [raised |-> FALSE, text |-> ResponseText(n, <<"w", "p", "w">>, None),
       usage |-> "counts"],
      [raised |-> FALSE,
       text |-> ResponseText(n, <<"p", "{", "J", "}", "w">>,
                             [type |-> "code_generation",
                              summary |-> Summary(n)]),
       usage |-> "counts"],
      [raised |-> FALSE, text |-> ResponseText(n, <<"w", "p", "w">>, None),
       usage |-> "malformed"] }

\* process_chat_request on a request "hello" without context
PlainChatRequest ==
    /\ turns < MaxTurns
    /\ \E session_id \in (IF turns = 0 THEN FirstSessionIds ELSE SessionIds),
          name \in ModelNames,
          outcome \in PlainOutcomes(turns + 1) :
        ProcessChatRequest(session_id, name, <<"h", "e", "l", "l", "o">>,
                           None, outcome)

NextControl == PlainChatRequest \/ reset_session \/ get_history \/ get_code

\* the session endpoints around turns that differ in session, provider and
\* outcome only
SpecControl == InitSessions /\ [][NextControl]_vars

\* --------------------------------- one session, with and without an anchor

\* process_chat_request on the session "default", with either query, with
\* and without a context of open files and a workspace tree
AnchoredChatRequest ==
    /\ turns < MaxTurns
    /\ \E name \in ModelNames, query \in Queries,
          context \in {None, ChatContext(<<"App.jsx">>, SampleTree)},
          outcome \in PlainOutcomes(turns + 1) :
        ProcessChatRequest("default", name, query, context, outcome)

NextAnchored == AnchoredChatRequest \/ reset_session

\* turns of one session that differ in query, context, provider and outcome
SpecAnchored == InitSessions /\ [][NextAnchored]_vars

\* ------------------------------------- one session, the message of a turn

\* process_chat_request on the session "default", with either query and
\* any context (none, an empty one, open files, a workspace tree, both); the
\* provider call raises or answers with a code_generation object
AssembledChatRequest ==
    /\ turns < MaxTurns
    /\ \E name \in ModelNames, query \in Queries,
          context \in Contexts \cup {ChatContext(<<"App.jsx">>, SampleTree)},
          outcome \in {[raised |-> TRUE],
                       [raised |-> FALSE,
                        text |-> ResponseText(turns + 1,
                                              <<"p", "{", "J", "}", "w">>,
                                              [type |-> "code_generation",
                                               summary |-> Summary(turns + 1)]),
                        usage |-> "counts"]} :
        ProcessChatRequest("default", name, query, context, outcome)

NextAssembly == AssembledChatRequest \/ reset_session

\* turns of one session that differ in query, context and provider
SpecAssembly == InitSessions /\ [][NextAssembly]_vars

\* -------------------------------------------- one session, turn after turn

\* process_chat_request on the session "default" with a plain request
OrderedChatRequest ==
    /\ turns < MaxOrderedTurns
    /\ \E name \in ModelNames, outcome \in PlainOutcomes(turns + 1) :
        ProcessChatRequest("default", name, <<"h", "e", "l", "l", "o">>,
                           None, outcome)

NextOrdered == OrderedChatRequest \/ reset_session

\* turns of one session that differ in provider and outcome
SpecOrdered == InitSessions /\ [][NextOrdered]_vars

\* ------------------------------------------------- one session, at length

\* the provider call returns
SuccessOutcomes(n) == {outcome \in PlainOutcomes(n) : ~outcome.raised}

\* the answer of the n-th turn once the conversation has settled: prose on
\* the even turns, a code_generation object on the odd ones
SettledOutcome(n) ==
    [raised |-> FALSE,
     text |-> IF n % 2 = 0 THEN ResponseText(n, <<"w", "p", "w">>, None)
              ELSE ResponseText(n, <<"p", "{", "J", "}", "w">>,
                                [type |-> "code_generation",
                                 summary |-> Summary(n)]),
     usage |-> "counts"]

\* process_chat_request on the session "default" with a plain request: each
\* turn goes to either provider; the first MaxTurns turns end in any way a
\* returning provider call allows, the later ones are answered with a text
LongChatRequest ==
    /\ turns < MaxLongTurns
    /\ \E name \in ModelNames, outcome \in SuccessOutcomes(turns + 1) :
        /\ turns >= MaxTurns => outcome = SettledOutcome(turns + 1)
        /\ ProcessChatRequest("default", name, <<"h", "e", "l", "l", "o">>,
                              None, outcome)

NextLong == LongChatRequest

\* a long conversation of one session
SpecLong == InitSessions /\ [][NextLong]_vars

\* --------------------------------------------- requests on the event loop

\* chat requests in flight at once
MaxRequests == 2
RequestIds == 1..MaxRequests

\* a request the server has not received yet
NoRequest ==
    [stage |-> "new", session_id |-> "", name |-> NoModelName, n |-> 0,
     turn |-> NoTurn]

\* the provider call of process_chat_request were awaited: the coroutine
\* gives the event loop up while the provider works
HoldsLoopNever(request) == FALSE

\* the coroutine of the request keeps the event loop: it is inside
\* claude_client.call_api or openai_client.call_api (lines 233-237), plain
\* blocking calls of a coroutine that has no await, on the one event loop
\* that uvicorn.run starts
HoldsLoop(request) == request.stage = "calling"

\* the event loop can run a coroutine
LoopFree == \A r \in RequestIds : ~HoldsLoop(requests[r])

InitInterleave ==
    /\ conversations = [p \in Providers |-> <<>>]
    /\ generated_code = <<>>
    /\ turn = NoTurn
    /\ read_result = None
    /\ turns = 0
    /\ requests = [r \in RequestIds |-> NoRequest]
    /\ IdleBuffer
    /\ IdleNormalizer
    /\ IdleFn
    /\ last_op = "new"

\* the request ids number the requests as they arrive
Arrives(r) ==
    /\ requests[r].stage = "new"
    /\ \A earlier \in 1..(r - 1) : requests[earlier].stage # "new"

\* what the provider call does to a turn here: it raises, returns None or
\* answers with prose
InterleaveOutcomes(n) ==
    { [raised |-> TRUE],
      [raised |-> FALSE, text |-> None, usage |-> "counts"],
      [raised |-> FALSE, text |-> ResponseText(n, <<"w", "p", "w">>, None),
       usage |-> "counts"] }

\* chat_endpoint up to await file.read() (line 366), or websocket_endpoint
\* up to await websocket.receive_text() (line 486): the coroutine is
\* suspended before its turn has started
ChatEndpointSuspends(r) ==
    /\ LoopFree
    /\ Arrives(r)
    /\ \E session_id \in SessionIds, name \in ModelNames :
          requests' = [requests EXCEPT ![r] =
                          [stage |-> "reading", session_id |-> session_id,
                           name |-> name, n |-> 0, turn |-> NoTurn]]
    /\ last_op' = "chat_endpoint"
    /\ UNCHANGED <<conversations, generated_code, turn, read_result, turns,
                   bufVars, normVars, fnVars>>

\* the coroutine runs from its last await, or from the start of a request
\* without files, into process_chat_request and up to the provider call
\* (lines 178-237)
TurnStarts(r) ==
    /\ LoopFree
    /\ \E session_id \in SessionIds, name \in ModelNames :
          /\ IF requests[r].stage = "reading"
             THEN session_id = requests[r].session_id /\ name = requests[r].name
             ELSE Arrives(r)
          /\ LET start == TurnStart(conversations, generated_code, turns + 1,
                                    session_id, name, <<"h", "e", "l", "l", "o">>,
                                    IF requests[r].stage = "reading"
                                    THEN ChatContext(<<"App.jsx">>, None)
                                    ELSE None)
             IN /\ conversations' = start.conversations
                /\ generated_code' = start.generated_code
                /\ turn' = start.turn
                /\ requests' = [requests EXCEPT ![r] =
                                   [stage |-> "calling", session_id |-> session_id,
                                    name |-> name, n |-> turns + 1,
                                    turn |-> start.turn]]
          /\ turns' = turns + 1
    /\ read_result' = None
    /\ last_op' = "process_chat_request"
    /\ UNCHANGED <<bufVars, normVars, fnVars>>

\* the provider call of the request ends and process_chat_request runs to
\* its end (lines 238-338)
TurnEnds(r) ==
    /\ requests[r].stage = "calling"
    /\ \A other \in RequestIds \ {r} : ~HoldsLoop(requests[other])
    /\ \E outcome \in InterleaveOutcomes(requests[r].n) :
          LET finish == TurnFinish(conversations, generated_code,
                                   requests[r].turn, outcome)
          IN /\ conversations' = finish.conversations
             /\ generated_code' = finish.generated_code
             /\ turn' = finish.turn
             /\ requests' = [requests EXCEPT ![r] =
                                [@ EXCEPT !.stage = "done", !.turn = finish.turn]]
    /\ read_result' = None
    /\ last_op' = "process_chat_request"
    /\ UNCHANGED <<turns, bufVars, normVars, fnVars>>

\* reset_session, a coroutine without an await, when the loop can run it
ResetBetweenTurns == LoopFree /\ reset_session

NextInterleave ==
    \/ \E r \in RequestIds : ChatEndpointSuspends(r)
    \/ \E r \in RequestIds : TurnStarts(r)
    \/ \E r \in RequestIds : TurnEnds(r)
    \/ ResetBetweenTurns

\* chat requests in flight together, and resets, as the event loop runs them
SpecInterleave == InitInterleave /\ [][NextInterleave]_vars

\* ---------------------------------------------------- buffer properties

MarkedPositions(msgs) == {i \in 1..Len(msgs) : msgs[i].cache_control}

IsPrimingMessage(m) == m.content.tag \in {"examples", "understood"}

\* the calls so far began with a user message and never appended two
\* assistant messages in a row (what turns produce, failed calls included)
UserFirstNoAssistantPair(hist) ==
    /\ hist # <<>> => hist[1].role = "user"
    /\ \A i \in 1..(Len(hist) - 1) :
          ~(hist[i].role = "assistant" /\ hist[i + 1].role = "assistant")

\* C3: after every add_message call the buffer holds at most max_messages
\* messages, whatever the capacity and whether or not examples were injected.
C3_CapacityInvariant ==
    last_op = "add_message" => Len(buf.messages) <= buf.max_messages

\* C4 as stated: with examples injected, after every add_message call of any
\* role the message at position 2 (the third), if present, is a user message.
C4_AlternationAnyRoles ==
    (last_op = "add_message" /\ buf.examples_injected /\ Len(buf.messages) > 2)
        => buf.messages[3].role = "user"

\* C4 amended: with examples injected, if the add_message calls began with a
\* user message and never appended two assistant messages in a row, then after
\* every call the message at position 2, if present, is a user message.
C4_AlternationUserFirst ==
    (last_op = "add_message" /\ buf.examples_injected
        /\ UserFirstNoAssistantPair(appended) /\ Len(buf.messages) > 2)
        => buf.messages[3].role = "user"

\* a trim left an assistant message after the pair and dropped it: the buffer
\* is one short of its capacity and starts with a user message again
C4_Witness ==
    /\ last_op = "add_message" /\ buf.examples_injected
    /\ UserFirstNoAssistantPair(appended)
    /\ Len(appended) > buf.max_messages - 2
    /\ Len(buf.messages) = buf.max_messages - 1
    /\ Len(buf.messages) > 2
    /\ buf.messages[3].role = "user"

PairPinned(b) ==
    b.examples_injected =>
        /\ Len(b.messages) >= 2
        /\ SubSeq(b.messages, 1, 2) = Examples(b.kind)
        /\ \A i \in 3..Len(b.messages) : ~IsPrimingMessage(b.messages[i])

\* C5: once inject_examples has seeded the buffer, every later add_message and
\* inject_examples call leaves the priming pair at positions 0 and 1, nowhere
\* else, and the buffer seeded; an inject_examples call on a non-empty or
\* already seeded buffer changes nothing. (It holds for the capacities from 3
\* up, SpecBuf; at capacity 2 the trim keeps the whole list after the pair.)
C5_PrimingPairPinned ==
    [][last_op' \in {"add_message", "inject_examples"} =>
        /\ PairPinned(buf')
        /\ (buf.examples_injected => buf'.examples_injected)
        /\ (last_op' = "inject_examples"
              /\ (buf.messages # <<>> \/ buf.examples_injected) => buf' = buf) ]_vars

\* C6 as stated: for a Claude buffer with examples injected and more than 5
\* stored messages, exactly one exported message carries cache_control, the
\* 4th-from-last.
C6_ExactlyOneMarker ==
    (last_op = "get_messages_for_api" /\ buf.kind = "claude"
        /\ buf.examples_injected /\ Len(buf.messages) > 5)
        => MarkedPositions(api_messages) = {Len(buf.messages) - 3}

\* the positions of the stored copies of Claude's priming user message
PrimingUserPositions(msgs) ==
    {i \in 1..Len(msgs) : msgs[i] = Examples("claude")[1]}

\* C6 amended: for a buffer with examples injected and more than 5 stored
\* messages, a Claude buffer's export carries cache_control on the
\* 4th-from-last stored message and on every stored copy of the priming user
\* message, the first message among them, and on no other: exactly two
\* markers, on the first and on the 4th-from-last message, at every capacity
\* but 2, where the pair is stored once per add_message and every copy of its
\* user message is exported marked; an OpenAI buffer's export is the stored
\* sequence and carries none.
C6_BoundaryMarker ==
    (last_op = "get_messages_for_api" /\ buf.examples_injected
        /\ Len(buf.messages) > 5)
        => /\ Len(api_messages) = Len(buf.messages)
           /\ buf.kind = "claude" =>
                /\ MarkedPositions(api_messages) =
                      PrimingUserPositions(buf.messages)
                          \cup {Len(buf.messages) - 3}
                /\ 1 \in PrimingUserPositions(buf.messages)
                /\ buf.max_messages # 2 =>
                      MarkedPositions(api_messages) = {1, Len(buf.messages) - 3}
           /\ buf.kind = "openai" =>
                /\ api_messages = buf.messages
                /\ MarkedPositions(api_messages) = {}

\* a Claude export with exactly the two markers: the priming user message and
\* the 4th-from-last stored message
C6_Witness ==
    /\ last_op = "get_messages_for_api" /\ buf.kind = "claude"
    /\ buf.examples_injected /\ Len(buf.messages) > 6
    /\ MarkedPositions(api_messages) = {1, Len(buf.messages) - 3}
    /\ MarkedPositions(buf.messages) = {1}

\* C7: for a buffer holding 3 or fewer messages get_messages_for_api returns
\* exactly the stored messages, in order, with no cache marker added.
C7_ExportThreshold ==
    (last_op = "get_messages_for_api" /\ Len(buf.messages) <= 3)
        => api_messages = buf.messages

\* three plain stored messages exported as they are
C7_Witness ==
    /\ last_op = "get_messages_for_api" /\ buf.kind = "claude"
    /\ ~buf.examples_injected /\ Len(buf.messages) = 3
    /\ api_messages = buf.messages
    /\ MarkedPositions(api_messages) = {}

\* ------------------------------------------------- normalizer properties

Normalized == last_op \in {"sort_modifications", "apply"}

\* C1 as stated: for a batch of pairwise non-overlapping modifications on one
\* file, applying them one after another in the order sort_modifications
\* returns them gives the file that applying them all against the original
\* numbering gives.
C1_ReverseOrderApplication ==
    last_op = "apply" =>
        \A i \in 1..Len(sorted_changes) :
            PairwiseNonOverlapping(sorted_changes[i].modifications)
                => patched[i] = ApplySimultaneously(OriginalFile,
                                                    sorted_changes[i].modifications)

\* C1 amended: the same, for a batch whose modifications are pairwise
\* non-overlapping and have pairwise distinct start_line.
C1_ReverseOrderDistinctStarts ==
    last_op = "apply" =>
        \A i \in 1..Len(sorted_changes) :
            (PairwiseNonOverlapping(sorted_changes[i].modifications)
                /\ DistinctStartLines(sorted_changes[i].modifications))
                => patched[i] = ApplySimultaneously(OriginalFile,
                                                    sorted_changes[i].modifications)

\* three modifications given top to bottom, one of them an insert_before and
\* one a delete, that applied in the given order would have produced another file
C1_Witness ==
    /\ last_op = "apply"
    /\ Len(changes) = 1 /\ Len(sorted_changes) = 1
    /\ Len(ModsOf(changes[1])) = 3
    /\ PairwiseNonOverlapping(ModsOf(changes[1]))
    /\ DistinctStartLines(ModsOf(changes[1]))
    /\ \E j, k \in 1..3 : /\ ModsOf(changes[1])[j].operation = "insert_before"
                          /\ ModsOf(changes[1])[k].operation = "delete"
    /\ patched[1] = ApplySimultaneously(OriginalFile, ModsOf(changes[1]))
    /\ ApplyInOrder(OriginalFile, ModsOf(changes[1])) # patched[1]

\* C2: in every entry sort_modifications returns, the modifications are in
\* non-increasing start_line order.
C2_DescendingStartLine ==
    Normalized =>
        \A i \in 1..Len(sorted_changes) :
            \A j, k \in 1..Len(sorted_changes[i].modifications) :
                j < k => StartKey(sorted_changes[i].modifications[j])
                            >= StartKey(sorted_changes[i].modifications[k])

Shapes(mods) == [j \in 1..Len(mods) |-> <<mods[j].operation, mods[j].start_line>>]

\* the worked example at the scale of the model: [replace 1-1, delete 3-3,
\* insert after 2] comes back as delete(3), insert(2), replace(1)
C2_Witness ==
    /\ last_op = "sort_modifications"
    /\ Len(changes) = 1 /\ Len(sorted_changes) = 1
    /\ Shapes(ModsOf(changes[1]))
          = <<(<<"replace", 1>>), (<<"delete", 3>>), (<<"insert", 2>>)>>
    /\ Shapes(sorted_changes[1].modifications)
          = <<(<<"delete", 3>>), (<<"insert", 2>>), (<<"replace", 1>>)>>

\* the file paths the input names
InputFiles == {FileOf(changes[i]) : i \in 1..Len(changes)}

\* where the input gives a modification for the file: entry and position
GivenFor(file) ==
    {<<i, j>> \in (1..Len(changes)) \X (1..MaxMods) :
        /\ FileOf(changes[i]) = file
        /\ j <= Len(ModsOf(changes[i]))}

\* the output entries naming the file
EntriesFor(file) == {i \in 1..Len(sorted_changes) : sorted_changes[i].file = file}

\* the entry's list is a rearrangement of the modifications given for the
\* file (every modification of an input carries its own text, so equal sets
\* and equal lengths make a permutation)
IsPermutationOfGiven(mods, file) ==
    /\ Len(mods) = Cardinality(GivenFor(file))
    /\ {mods[k] : k \in 1..Len(mods)}
          = {ModsOf(changes[p[1]])[p[2]] : p \in GivenFor(file)}

\* C23 as stated: every file path of the input appears in exactly one output
\* entry, whose list is a permutation of the modifications given for it.
C23_EveryPathGrouped ==
    Normalized =>
        \A file \in InputFiles :
            /\ Cardinality(EntriesFor(file)) = 1
            /\ \A i \in EntriesFor(file) :
                  IsPermutationOfGiven(sorted_changes[i].modifications, file)

\* C23 amended: every file path for which the input gives at least one
\* modification appears in exactly one output entry, whose list is a
\* permutation of the modifications given for it; a path whose entries give
\* none appears in no output entry, and the output names no other path.
C23_PathsWithModificationsGrouped ==
    Normalized =>
        /\ \A file \in InputFiles :
            /\ Cardinality(EntriesFor(file))
                  = (IF GivenFor(file) = {} THEN 0 ELSE 1)
            /\ \A i \in EntriesFor(file) :
                  IsPermutationOfGiven(sorted_changes[i].modifications, file)
        /\ \A i \in 1..Len(sorted_changes) : sorted_changes[i].file \in InputFiles

\* two entries naming the same file, merged into one entry in another order
C23_Witness ==
    /\ Normalized
    /\ Len(changes) = 2 /\ FileOf(changes[1]) = FileOf(changes[2])
    /\ ModsOf(changes[1]) # <<>> /\ ModsOf(changes[2]) # <<>>
    /\ Len(sorted_changes) = 1
    /\ Len(sorted_changes[1].modifications) = Cardinality(GivenFor(FileOf(changes[1])))
    /\ sorted_changes[1].modifications
          # ModsOf(changes[1]) \o ModsOf(changes[2])

\* p comes before q in the input: an earlier entry, or earlier in one entry
GivenBefore(p, q) == p[1] < q[1] \/ (p[1] = q[1] /\ p[2] < q[2])

PositionIn(mods, m) == CHOOSE k \in 1..Len(mods) : mods[k] = m

\* C24: two modifications of one file with equal start_line are in the output
\* in the relative order they had in the input, and normalizing the output
\* again returns it unchanged.
C24_StableTies ==
    Normalized =>
        /\ \A file \in InputFiles : \A i \in EntriesFor(file) :
              \A p, q \in GivenFor(file) :
                  LET mp == ModsOf(changes[p[1]])[p[2]]
                      mq == ModsOf(changes[q[1]])[q[2]]
                      mods == sorted_changes[i].modifications
                  IN (GivenBefore(p, q) /\ StartKey(mp) = StartKey(mq))
                        => PositionIn(mods, mp) < PositionIn(mods, mq)
        /\ sort_modifications(sorted_changes) = sorted_changes

\* two modifications of line 1 followed by one of a later line: the later
\* line comes first, the two ties keep their order
C24_Witness ==
    /\ Normalized
    /\ Len(changes) = 1 /\ Len(ModsOf(changes[1])) = 3
    /\ ModsOf(changes[1])[1].start_line = ModsOf(changes[1])[2].start_line
    /\ ModsOf(changes[1])[2].start_line < ModsOf(changes[1])[3].start_line
    /\ Len(sorted_changes) = 1
    /\ sorted_changes[1].modifications =
          << ModsOf(changes[1])[3], ModsOf(changes[1])[1],
             ModsOf(changes[1])[2] >>

\* ------------------------------------------------- the classifier, by call

MaxWords == 2

Words ==
    { <<"F", "i", "x">>, <<"p", "r", "e", "f", "i", "x">>,
      <<"h", "e", "l", "l", "o">>, <<"t", "h", "e">>, <<"c", "o", "d", "e">>,
      <<"A", "b", "o", "v", "e">>, <<"f", "o", "r", "m">>, <<"b", "u", "g">>,
      <<"m", "a", "U+212A", "e">>, <<"f", "U+0130", "x">>,
      <<"U+00C9", "d", "i", "t">> }

\* " ".join(words)
RECURSIVE JoinWords(_)
JoinWords(words) ==
    IF Len(words) = 0 THEN <<>>
    ELSE IF Len(words) = 1 THEN words[1]
    ELSE words[1] \o <<" ">> \o JoinWords(Tail(words))

\* the queries of at most MaxWords words
WordQueries ==
    { JoinWords(words) :
        words \in SeqsUpTo(Words, MaxWords) }

ClassifierCalls ==
    { [fn |-> "is_modification_request", query |-> query,
       has_context |-> has_context, has_previous_code |-> has_previous_code] :
        query \in WordQueries, has_context \in BOOLEAN,
        has_previous_code \in BOOLEAN }
    \cup { [fn |-> "is_likely_code_request", query |-> query] :
            query \in WordQueries }

InitClassifier ==
    /\ fn_call \in ClassifierCalls
    /\ fn_result = NoFn
    /\ IdleBuffer
    /\ IdleNormalizer
    /\ IdleSessions
    /\ last_op = "new"

CallIsModificationRequest ==
    /\ fn_call.fn = "is_modification_request"
    /\ fn_result = NoFn
    /\ fn_result' =
          [returned |-> is_modification_request(fn_call.query,
                                                fn_call.has_context,
                                                fn_call.has_previous_code)]
    /\ last_op' = "is_modification_request"
    /\ UNCHANGED <<fn_call, bufVars, normVars, sessVars>>

CallIsLikelyCodeRequest ==
    /\ fn_call.fn = "is_likely_code_request"
    /\ fn_result = NoFn
    /\ fn_result' = [returned |-> is_likely_code_request(fn_call.query)]
    /\ last_op' = "is_likely_code_request"
    /\ UNCHANGED <<fn_call, bufVars, normVars, sessVars>>

NextClassifier == CallIsModificationRequest \/ CallIsLikelyCodeRequest

SpecClassify == InitClassifier /\ [][NextClassifier]_vars

\* ------------------------------------------------- the extraction, by call

MaxTokens == 4

Tokens == {"{", "}", "w", "f", "p", "J"}

ExtractionCalls ==
    { [fn |-> "json_candidate", tokens |-> tokens] :
        tokens \in SeqsUpTo(Tokens, MaxTokens) }

InitExtraction ==
    /\ fn_call \in ExtractionCalls
    /\ fn_result = NoFn
    /\ IdleBuffer
    /\ IdleNormalizer
    /\ IdleSessions
    /\ last_op = "new"

CallJsonCandidate ==
    /\ fn_call.fn = "json_candidate"
    /\ fn_result = NoFn
    /\ fn_result' = [returned |-> JsonCandidate(fn_call.tokens)]
    /\ last_op' = "json_candidate"
    /\ UNCHANGED <<fn_call, bufVars, normVars, sessVars>>

NextExtraction == CallJsonCandidate

SpecExtract == InitExtraction /\ [][NextExtraction]_vars

\* ------------------------------------------------ buffer retention properties

\* the sequence is what remains of the appended messages after dropping some
\* of the oldest
IsSuffixOfAppended(msgs) ==
    \E k \in 0..Len(appended) : msgs = SubSeq(appended, k + 1, Len(appended))

\* the message of the last add_message call is the last entry of the buffer
JustAppendedIsLast ==
    Len(appended) > 0 =>
        /\ Len(buf.messages) > 0
        /\ buf.messages[Len(buf.messages)] = appended[Len(appended)]

\* C19: on a buffer with examples injected, after any sequence of add_message
\* calls the entries after the priming pair are a contiguous suffix of the
\* messages appended so far, and the message just appended is the last entry.
C19_RecentSuffixRetention ==
    buf.examples_injected =>
        /\ IsSuffixOfAppended(PyFrom(buf.messages, 2))
        /\ JustAppendedIsLast

\* C20: on a buffer whose examples were never injected, once more messages
\* were appended than the capacity, the buffer holds exactly the last
\* max_messages messages appended, in order.
C20_TrimWithoutExamples ==
    (~buf.examples_injected /\ Len(appended) > buf.max_messages) =>
        buf.messages = SubSeq(appended, Len(appended) - buf.max_messages + 1,
                              Len(appended))

\* ------------------------------------------------ stored form properties

\* C21 as stated: every entry stored in the buffer has plain-text content;
\* no stored entry carries a cache_control marker.
C21_StoredPlain == MarkedPositions(buf.messages) = {}

\* C21 amended: the stored entries that carry a cache_control marker are
\* exactly the stored copies of Claude's priming user message, which
\* inject_examples stores marked: none in an OpenAI buffer, and in a Claude
\* buffer the first entry alone at every capacity but 2, where every
\* add_message stores the pair once more; every entry stored by add_message is
\* plain, so no marker of an export is stored.
C21_StoredPlainButPriming ==
    /\ MarkedPositions(buf.messages) =
          IF buf.kind = "claude" THEN PrimingUserPositions(buf.messages) ELSE {}
    /\ \A i \in 1..Len(buf.messages) :
          ~IsPrimingMessage(buf.messages[i]) => ~buf.messages[i].cache_control
    /\ buf.max_messages # 2 => MarkedPositions(buf.messages) \subseteq {1}
    /\ (buf.kind = "claude" /\ buf.examples_injected) =>
          1 \in MarkedPositions(buf.messages)

\* a Claude buffer whose export carries the boundary marker while the stored
\* entries carry the priming marker only
C21_Witness ==
    /\ last_op = "get_messages_for_api" /\ buf.kind = "claude"
    /\ buf.examples_injected /\ Len(buf.messages) > 5
    /\ (Len(buf.messages) - 3) \in MarkedPositions(api_messages)
    /\ MarkedPositions(buf.messages) = {1}

\* ------------------------------------------------ session store properties

ResponseTypes == {"code_generation", "code_changes", "conversation", "error"}

\* the last request returned a response built from a decoded payload's text
DecodedTurn == turn.status = "returned" /\ turn.decoded # None

\* C8: when the JSON candidate decodes and its type field is absent or is a
\* value outside the four response types, the turn returns a response of
\* type code_generation.
C8_MissingOrUnknownType ==
    (DecodedTurn /\ Get(turn.decoded, "type", JsonNull) \notin ResponseTypes)
        => turn.response.type = "code_generation"

\* C9: after a turn that returns a response of type code_generation, the
\* session's generated code is the serialization of that turn's payload, and
\* a code read of that session returns it.
C9_CodeGenerationPersistence ==
    (turn.status = "returned" /\ turn.response.type = "code_generation")
        => /\ turn.session_id \in DOMAIN generated_code
           /\ generated_code[turn.session_id] = JsonDumps(turn.response.parsed)

\* C10: a turn whose provider call returns text returns a response whose
\* type is one of the four response types; a turn fails only when the
\* provider call raised, so no turn ends in an exception of its own.
C10_WellTypedOutcome ==
    /\ turn.status = "returned" => turn.response.type \in ResponseTypes
    /\ turn.status = "failed" => turn.text = None
    /\ turn.status # "crashed"

\* the step is a chat turn on which the provider returned text
ReturnedStep == last_op' = "process_chat_request" /\ turn'.status = "returned"

\* the stored code of a session, None when the session has none
CodeOf(store, session_id) == Get(store, session_id, None)

\* C11: when the response text has no JSON candidate or the candidate does
\* not decode, the turn returns type conversation if is_likely_code_request
\* is false for the query and type error if it is true, the response carries
\* the raw response text, and the session's generated code is unchanged.
C11_ParseFailureFallback ==
    [][(ReturnedStep /\ turn'.decoded = None) =>
            /\ turn'.response.type =
                  IF IsLikelyCode[turn'.query] THEN "error" ELSE "conversation"
            /\ turn'.response.parsed.summary = turn'.text
            /\ CodeOf(generated_code', turn'.session_id)
                  = CodeOf(generated_code, turn'.session_id)]_vars

\* the step is a chat turn on which the provider call raised
FailedStep == last_op' = "process_chat_request" /\ turn'.status = "failed"

\* the buffer of the turn's session after the step ends with the turn's own
\* user message
UserMessageStays ==
    LET messages == conversations'[turn'.provider][turn'.session_id].messages
        last == messages[Len(messages)]
    IN /\ last.role = "user"
       /\ last.content.tag = "current_message"
       /\ last.content.n = turns'
       /\ last.content.user_request = turn'.query

\* C12: when the provider call of a turn fails, the turn fails with no
\* response, no assistant message is appended, the turn's user message stays
\* in the buffer, and the session's generated code is unchanged.
C12_GatewayFailure ==
    [][FailedStep =>
            /\ turn'.response = None
            /\ UserMessageStays
            /\ CodeOf(generated_code', turn'.session_id)
                  = CodeOf(generated_code, turn'.session_id)]_vars

\* the session id holds no buffer of any provider and no generated code
Forgotten(convs, codes, session_id) ==
    /\ \A p \in Providers : session_id \notin DOMAIN convs[p]
    /\ session_id \notin DOMAIN codes

\* a reset of any session id returns the same acknowledgment and leaves the
\* id without buffers and code, so that a second reset changes nothing; the
\* id stays so until a chat request runs on it, and as long as it does a code
\* read of the id returns the none marker
ResetForgets ==
    /\ last_op' = "reset_session" =>
          /\ read_result'.returned =
                [message |-> "reset successfully",
                 session_id |-> read_result'.session_id]
          /\ Forgotten(conversations', generated_code', read_result'.session_id)
          /\ Forgotten(conversations, generated_code, read_result'.session_id)
                => /\ conversations' = conversations
                   /\ generated_code' = generated_code
    /\ \A s \in SessionIds :
          (Forgotten(conversations, generated_code, s)
              /\ ~Forgotten(conversations', generated_code', s))
            => last_op' = "process_chat_request" /\ turn'.session_id = s
    /\ (last_op' = "get_code"
          /\ Forgotten(conversations, generated_code, read_result'.session_id))
            => read_result'.returned =
                  [code |-> None, message |-> "No code generated yet"]

\* the step is a history read of a session id without buffers and code
ReadsForgottenHistory ==
    /\ last_op' = "get_history"
    /\ Forgotten(conversations, generated_code, read_result'.session_id)

\* C13: a reset of any session id returns the same acknowledgment and
\* repeating it changes nothing; from a reset of an id until a chat request
\* runs on it, a history read of the id returns the empty session, whatever
\* its provider argument, and a code read returns the none marker.
C13_ResetIdempotent ==
    [][/\ ResetForgets
       /\ ReadsForgottenHistory =>
            \E provider \in ProviderArgs :
                read_result'.returned =
                    [messages |-> <<>>, has_code |-> FALSE, provider |-> provider]
      ]_vars

\* the same for history reads through the providers the service has
C13_ResetKnownProviders ==
    [][/\ ResetForgets
       /\ (ReadsForgottenHistory
              /\ read_result'.returned.provider \in Providers) =>
            read_result'.returned =
                [messages |-> <<>>, has_code |-> FALSE,
                 provider |-> read_result'.returned.provider]
      ]_vars

\* some modification entry of a parsed payload carries an old_content field
ExposesOldContent(parsed) ==
    /\ "changes" \in DOMAIN parsed
    /\ \E i \in 1..Len(parsed.changes) :
          \E j \in 1..Len(parsed.changes[i].modifications) :
              "old_content" \in DOMAIN parsed.changes[i].modifications[j]

\* C14: in every response returned for a decoded payload, no modification
\* entry carries an old_content field, whatever type the payload has.
C14_OldContentStripped ==
    DecodedTurn => ~ExposesOldContent(turn.response.parsed)

\* the stored content is one with the tag: a None answer has none
Tagged(content, tag) == IF content = None THEN FALSE ELSE content.tag = tag

\* the buffer a provider keeps for a session, or NoBuffer when it keeps none
NoBuffer == [kind |-> "none"]
BufferOf(convs, provider, session_id) ==
    IF session_id \in DOMAIN convs[provider] THEN convs[provider][session_id]
    ELSE NoBuffer

\* C17: two turns on one session never interleave: while a turn stands
\* between the append of its user message and the end of its provider call,
\* the buffers of its session are changed by no step but that turn's own end,
\* which appends the turn's assistant message directly after its user message
\* or, when the call failed, leaves the buffer as it is.
C17_TurnsSerialized ==
    [][\A r \in RequestIds :
          requests[r].stage = "calling" =>
            LET provider == requests[r].turn.provider
                session_id == requests[r].turn.session_id
                before == BufferOf(conversations, provider, session_id)
                after == BufferOf(conversations', provider, session_id)
            IN /\ before # NoBuffer
               /\ before.messages[Len(before.messages)].role = "user"
               /\ before.messages[Len(before.messages)].content.n = requests[r].n
               /\ requests'[r].stage = "calling" => after = before
               /\ requests'[r].stage # "calling" =>
                     /\ requests'[r].stage = "done"
                     /\ IF requests'[r].turn.status = "failed"
                        THEN after = before
                        ELSE after = add_message(before, "assistant",
                                                 requests'[r].turn.text)
               /\ \A p \in Providers \ {provider} :
                     BufferOf(conversations', p, session_id)
                        = BufferOf(conversations, p, session_id)
      ]_vars

\* a turn is inside its provider call while another request for the same
\* session and provider waits on the event loop
C17_Witness ==
    \E r \in RequestIds, other \in RequestIds :
        /\ r # other
        /\ requests[r].stage = "calling"
        /\ requests[other].stage = "reading"
        /\ requests[other].session_id = requests[r].turn.session_id
        /\ requests[other].name = requests[r].name

\* C18: the generated code of a session is changed only by a turn of that
\* session whose decoded payload has type code_generation and by a reset of
\* that session; every other turn and every read leaves it unchanged.
C18_GeneratedCodeFrame ==
    [][\A session_id \in SessionIds :
          CodeOf(generated_code', session_id) # CodeOf(generated_code, session_id)
            => \/ /\ ReturnedStep
                  /\ turn'.session_id = session_id
                  /\ Get(turn'.decoded, "type", JsonNull) = "code_generation"
               \/ /\ last_op' = "reset_session"
                  /\ read_result'.session_id = session_id]_vars

\* ----------------------------------------------------- classifier properties

\* the character is the lower-case letter, or its upper-case form
SameLetter(char, lower) ==
    \/ char = lower
    \/ \E k \in 1..Len(LowerCase) : UpperCase[k] = char /\ LowerCase[k] = lower

\* one of the phrases occurs in the query at some position, in any case
Mentions(query, phrases) ==
    \E phrase \in phrases : \E i \in 1..Len(query) :
        /\ i + Len(phrase) - 1 <= Len(query)
        /\ \A k \in 1..Len(phrase) : SameLetter(query[i + k - 1], phrase[k])

\* C15: is_modification_request is true exactly when the query contains a
\* modification verb or a backward-reference phrase and has_context or
\* has_previous_code is true; it is false for every query when both are
\* false, and true for a query with a modification verb when
\* has_previous_code is true.
C15_ModificationRequest ==
    last_op = "is_modification_request" =>
        LET verb == Mentions(fn_call.query, modification_keywords)
            reference == Mentions(fn_call.query, reference_keywords)
            anchor == fn_call.has_context \/ fn_call.has_previous_code
        IN /\ fn_result.returned <=> ((verb \/ reference) /\ anchor)
           /\ ~anchor => ~fn_result.returned
           /\ (verb /\ fn_call.has_previous_code) => fn_result.returned

\* "Fix bug" with previous code and no workspace context is a modification
C15_Witness ==
    /\ last_op = "is_modification_request"
    /\ fn_call.query = <<"F", "i", "x", " ", "b", "u", "g">>
    /\ fn_call.has_previous_code /\ ~fn_call.has_context
    /\ fn_result.returned

\* ----------------------------------------------------- extraction properties

\* the 1-based positions of a token in a text
PositionsOf(tokens, c) == {i \in 1..Len(tokens) : tokens[i] = c}

\* C16: a JSON candidate is taken exactly when the text has a "{" and a "}"
\* and the first "{" precedes the last "}", and it is then the part of the
\* text from that "{" to that "}" inclusive; otherwise none is taken.
C16_ExtractionRule ==
    last_op = "json_candidate" =>
        LET opens == PositionsOf(fn_call.tokens, "{")
            closes == PositionsOf(fn_call.tokens, "}")
            first == CHOOSE i \in opens : \A j \in opens : i <= j
            last == CHOOSE i \in closes : \A j \in closes : i >= j
            taken == opens # {} /\ closes # {} /\ first < last
        IN /\ fn_result.returned.found <=> taken
           /\ taken => fn_result.returned.json_str =
                          [k \in 1..(last - first + 1) |->
                              fn_call.tokens[first + k - 1]]

\* prose, then an object: the candidate is the object
C16_Witness ==
    /\ last_op = "json_candidate"
    /\ fn_call.tokens = <<"p", "{", "J", "}">>
    /\ fn_result.returned.found
    /\ fn_result.returned.json_str = <<"{", "J", "}">>

\* ------------------------------------------------------- assembly properties

\* the step is a chat turn
TurnStep == last_op' = "process_chat_request"

\* the buffer of the turn's session and provider after the step
TurnBuffer == conversations'[turn'.provider][turn'.session_id].messages

\* the positions in that buffer of the user messages of this turn
TurnUserPositions ==
    {i \in 1..Len(TurnBuffer) :
        /\ TurnBuffer[i].role = "user"
        /\ Tagged(TurnBuffer[i].content, "current_message")
        /\ TurnBuffer[i].content.n = turns'}

\* C22: in every turn at most one of the context block and the previous-code
\* block is attached to the user message; the previous-code block is attached
\* exactly when the handler found no context, classified the request as a
\* modification and found generated code of the session, and it is that code;
\* and exactly one user message, ending with the user-request block, is
\* appended.
C22_MessageAssembly ==
    [][TurnStep =>
        /\ Cardinality(TurnUserPositions) = 1
        /\ \A i \in TurnUserPositions :
            LET content == TurnBuffer[i].content
                context_block == content.workspace_context # <<>>
                previous_block == content.previous_code # None
            IN /\ ~(context_block /\ previous_block)
               /\ context_block => turn'.has_context
               /\ previous_block <=>
                    /\ ~turn'.has_context
                    /\ turn'.is_modification
                    /\ turn'.has_previous_code
               /\ previous_block =>
                    /\ CodeOf(generated_code, turn'.session_id) # None
                    /\ content.previous_code
                          = CodeOf(generated_code, turn'.session_id)
               /\ content.user_request = turn'.query
               /\ \/ i = Len(TurnBuffer)
                  \/ /\ i = Len(TurnBuffer) - 1
                     /\ TurnBuffer[i + 1].role = "assistant"]_vars

\* a modification request without context on a session that holds generated
\* code: the user message carries the previous-code block
C22_Witness ==
    /\ last_op = "process_chat_request"
    /\ turn.has_previous_code /\ turn.is_modification /\ ~turn.has_context
    /\ turn.provider \in DOMAIN conversations
    /\ turn.session_id \in DOMAIN conversations[turn.provider]
    /\ \E i \in 1..Len(conversations[turn.provider][turn.session_id].messages) :
          LET m == conversations[turn.provider][turn.session_id].messages[i]
          IN /\ m.role = "user"
             /\ Tagged(m.content, "current_message")
             /\ m.content.n = turns
             /\ m.content.previous_code # None
             /\ m.content.workspace_context = <<>>

\* ------------------------------------------------------- advisory properties

\* the provider's answer without the stamp of its turn
Unstamped(text) ==
    [tokens |-> text.tokens,
     payload |-> IF text.payload = None THEN None
                 ELSE [text.payload EXCEPT !.summary = "summary"]]

\* what the claim compares of a response
Shape(response) ==
    <<response.type, response.is_code_change, response.request_type>>

\* C25: two turns with the same query that receive the same model output
\* return the same type, is_code_change and request_type, whatever
\* is_modification_request computed for each (here: two consecutive turns).
C25_ClassificationAdvisory ==
    [][(turn.status = "returned" /\ ReturnedStep
            /\ turn'.query = turn.query
            /\ Unstamped(turn'.text) = Unstamped(turn.text))
        => Shape(turn'.response) = Shape(turn.response)]_vars

\* "Fix the bug" answered twice with the same code_generation object on one
\* provider, the second time classified as a modification because the first
\* answer was stored
C25_Witness ==
    /\ last_op = "process_chat_request" /\ turns = 2
    /\ turn.status = "returned"
    /\ turn.is_modification /\ turn.has_previous_code /\ ~turn.has_context
    /\ turn.response.type = "code_generation"
    /\ LET messages == conversations[turn.provider][turn.session_id].messages
       IN /\ Len(messages) = 6
          /\ messages[3].content.user_request = turn.query
          /\ messages[3].content.previous_code = None
          /\ messages[5].content.previous_code # None
          /\ Unstamped(messages[4].content) = Unstamped(turn.text)

\* ------------------------------------------------------ isolation properties

\* the session id an operation was called with
ActingSession ==
    IF last_op' = "process_chat_request" THEN turn'.session_id
    ELSE read_result'.session_id

\* the entry of a dict under a key is what it was, present or absent
SameEntry(before, after, k) ==
    /\ (k \in DOMAIN before) = (k \in DOMAIN after)
    /\ k \in DOMAIN before => after[k] = before[k]

\* every other session keeps its buffers of both providers and its generated
\* code through the step
OtherSessionsKept ==
    \A s \in SessionIds \ {ActingSession} :
        /\ SameEntry(generated_code, generated_code', s)
        /\ \A p \in Providers : SameEntry(conversations[p], conversations'[p], s)

\* the acting session keeps its buffers of the providers in ps through the step
ActingSessionKept(ps) ==
    \A p \in ps : SameEntry(conversations[p], conversations'[p], ActingSession)

\* a turn or a history read through provider P leaves the acting session's
\* buffer of the other provider as it was, a code read leaves both
ReadsAndTurnsKeepOtherProvider ==
    /\ last_op' = "process_chat_request" =>
          ActingSessionKept(Providers \ {turn'.provider})
    /\ last_op' = "get_history" =>
          ActingSessionKept(Providers \ {read_result'.returned.provider})
    /\ last_op' = "get_code" => ActingSessionKept(Providers)

\* C26 as stated: a turn, reset or read on session A using provider P leaves
\* the buffers and the generated code of every other session as they were,
\* and leaves A's buffer of any other provider as it was; a reset, which names
\* no provider, leaves A's buffer of all providers but at most one as it was.
C26_ResetKeepsOtherProvider ==
    [][/\ OtherSessionsKept
       /\ ReadsAndTurnsKeepOtherProvider
       /\ last_op' = "reset_session" =>
            \E p \in Providers : ActingSessionKept(Providers \ {p})]_vars

\* C26 amended: a turn, reset or read on session A leaves the buffers (of both
\* providers) and the generated code of every other session as they were; a
\* turn or history read through provider P leaves A's buffer of the other
\* provider as it was, and a code read leaves all of A's buffers as they were;
\* a reset removes A's buffers of both providers and A's generated code.
C26_SessionIsolation ==
    [][/\ OtherSessionsKept
       /\ ReadsAndTurnsKeepOtherProvider
       /\ last_op' = "reset_session" =>
            /\ \A p \in Providers : ActingSession \notin DOMAIN conversations'[p]
            /\ ActingSession \notin DOMAIN generated_code']_vars

\* a turn on "other" has stored code while "default" holds a conversation
\* and code of its own
C26_Witness ==
    /\ last_op = "process_chat_request"
    /\ turn.status = "returned" /\ turn.session_id = "other"
    /\ Get(generated_code, "other", None) # None
    /\ Get(generated_code, "default", None) # None
    /\ \E p \in Providers :
          /\ "default" \in DOMAIN conversations[p]
          /\ Len(conversations[p]["default"].messages) > 2

\* ------------------------------------------------------- ordering properties

\* the message is the user message of the turn that has just run, unmarked
IsTurnUserMessage(m) ==
    /\ m.role = "user"
    /\ Tagged(m.content, "current_message")
    /\ m.content.n = turns
    /\ m.content.user_request = turn.query
    /\ ~m.cache_control

\* the message is the provider's answer of the turn that has just run
IsTurnAnswer(m) == m.role = "assistant" /\ m.content = turn.text

\* C27: in every turn the sequence handed to the provider ends with the
\* turn's user message as plain, unmarked text and holds no answer of the
\* turn; that user message is in the buffer; when the call fails the buffer
\* ends with it, and when the call returns the answer, a text or None,
\* follows it at the end.
C27_TurnOrdering ==
    last_op = "process_chat_request" =>
        LET messages == conversations[turn.provider][turn.session_id].messages
            n == Len(messages)
        IN /\ turn.sent # <<>>
           /\ IsTurnUserMessage(turn.sent[Len(turn.sent)])
           /\ \A i \in 1..Len(turn.sent) :
                 Tagged(turn.sent[i].content, "response")
                    => turn.sent[i].content.n < turns
           /\ turn.status \in {"failed", "returned", "crashed"}
           /\ turn.status = "failed" => IsTurnUserMessage(messages[n])
           /\ turn.status = "crashed" =>
                 /\ n > 1
                 /\ IsTurnUserMessage(messages[n - 1])
                 /\ IsTurnAnswer(messages[n])
           /\ turn.status = "returned" =>
                 /\ n > 1
                 /\ IsTurnUserMessage(messages[n - 1])
                 /\ IsTurnAnswer(messages[n])
                 /\ \A i \in 1..(n - 1) : ~IsTurnAnswer(messages[i])

\* the third turn in a row on the Claude buffer of one session: the payload
\* has seven messages, its boundary message is marked and its last is not
C27_Witness ==
    /\ last_op = "process_chat_request" /\ turns = 3
    /\ turn.status = "returned" /\ turn.provider = "claude"
    /\ Len(turn.sent) = 7
    /\ turn.sent[4].cache_control
    /\ ~turn.sent[7].cache_control
    /\ Len(conversations["claude"][turn.session_id].messages) = 8

\* ---------------------------------------------------- alternation properties

\* C28: after each completed turn of a run of successful turns on one
\* session, the stored messages after the priming pair alternate user,
\* assistant, ..., begin with a user message and end with the turn's raw
\* answer, and the priming pair is still in front, also once the buffer trims.
C28_TurnAlternation ==
    (last_op = "process_chat_request" /\ turn.status = "returned") =>
        LET b == conversations[turn.provider][turn.session_id]
            conversation == PyFrom(b.messages, 2)
            n == Len(conversation)
        IN /\ PyUpTo(b.messages, 2) = Examples(b.kind)
           /\ n > 0
           /\ \A i \in 1..n :
                 conversation[i].role = IF i % 2 = 1 THEN "user" ELSE "assistant"
           /\ conversation[n].role = "assistant"
           /\ conversation[n].content = turn.text

\* the buffer is full and its first turns have been trimmed away
C28_Witness ==
    /\ last_op = "process_chat_request" /\ turn.status = "returned"
    /\ turns = MaxLongTurns
    /\ LET b == conversations[turn.provider][turn.session_id]
       IN /\ Len(b.messages) = b.max_messages
          /\ b.messages[3].content.tag = "current_message"
          /\ b.messages[3].content.n > 2

\* --------------------------------------------------------- export properties

\* C29: get_messages_for_api leaves the stored buffer (messages, examples
\* flag, capacity) as it was, and its result has as many messages as the
\* stored buffer, each with the role and the text of the stored message at
\* its position.
C29_ExportReadOnly ==
    [][last_op' = "get_messages_for_api" =>
        /\ buf' = buf
        /\ Len(api_messages') = Len(buf.messages)
        /\ \A i \in 1..Len(buf.messages) :
              /\ api_messages'[i].role = buf.messages[i].role
              /\ api_messages'[i].content = buf.messages[i].content]_vars

\* ----------------------------------------------- response field properties

\* the request_type the claim pairs with each response type
RequestTypeOf(type) ==
    CASE type = "code_generation" -> "generation"
      [] type = "code_changes" -> "modification"
      [] type = "conversation" -> "conversation"
      [] type = "error" -> "error"
      [] OTHER -> "unspecified"

\* C30: in every response returned by a turn, is_code_change is true exactly
\* when the type is code_generation or code_changes, and for each of the four
\* types code_generation, code_changes, conversation and error the
\* request_type is generation, modification, conversation and error.
C30_ResponseFieldConsistency ==
    (last_op = "process_chat_request" /\ turn.status = "returned") =>
        /\ turn.response.is_code_change
              <=> turn.response.type \in {"code_generation", "code_changes"}
        /\ turn.response.type
                \in {"code_generation", "code_changes", "conversation", "error"}
              => turn.response.request_type = RequestTypeOf(turn.response.type)

====
